---- MODULE Spec2Model ----
(***************************************************************************)
(* A model of rift-engine/rift/lsp/server.py: LspServer, the handshake,    *)
(* the document store it keeps in step with the editor, the fan-out of     *)
(* change events to registered callbacks, and the edit requests it sends   *)
(* to the editor.                                                          *)
(*                                                                         *)
(* A text is a sequence of characters, a position is an offset into it.   *)
(* Callbacks are coroutine functions: calling one yields a coroutine that  *)
(* asyncio.ensure_future schedules as a task.                              *)
(***************************************************************************)
EXTENDS Integers, Sequences, FiniteSets, TLC

\* ------------------------------------------------------------- bounds
MaxOps == 4         \* calls and notifications the server receives in one run
MaxLen == 3         \* the longest text a run stores
MaxEdits == 2       \* the longest contentChanges list of one notification

\* ------------------------------------------------------------- inputs
\* What apply yields when it raises.
Failure == "Failure"
Uris == {"doc1", "doc2"}
\* The document whose messages DispatchSpec follows.
Document == "doc1"
\* The versions a notification declares: the server reads a version only to
\* store it, so two values give every order of stored and declared version.
Versions == {1, 2}
LanguageIds == {"python"}
\* lsp.TraceValues
TraceValues == {"off", "messages", "verbose"}
OpenTexts == {<<"a", "b">>}
Callbacks == {"cb1", "cb2"}
\* The invocations of _on_did_change that may be awaiting at once: one. Every
\* other notification and call may arrive while it awaits.
Handlers == {1}
\* The invocations DispatchSpec has room for: a second one, so that two
\* awaiting at once is a state the model can be in.
Invocations == {1, 2}

\* lsp.TextDocumentItem
TextDocumentItem(uri, languageId, version, text) ==
    [uri |-> uri, languageId |-> languageId, version |-> version, text |-> text]

\* Python's None where a TextDocumentItem is expected.
None == TextDocumentItem("", "", -1, <<>>)

\* lsp.TextDocumentContentChangeEvent: replace text[start..end) by newText.
Change(start, end, newText) == [start |-> start, end |-> end, newText |-> newText]

\* The changes a client sends here: an insertion at offset 1, and a deletion
\* whose range lies outside a text shorter than three characters.
Changes == {Change(1, 1, <<"X">>), Change(2, 3, <<>>)}

ChangeLists == UNION {[1..n -> Changes] : n \in 0..MaxEdits}

\* The contentChanges lists of at most one change.
ShortLists == {c \in ChangeLists : Len(c) <= 1}

\* lsp.DidChangeTextDocumentParams
DidChangeTextDocumentParams(uri, version, contentChanges) ==
    [textDocument |-> [uri |-> uri, version |-> version], contentChanges |-> contentChanges]

\* A message of the editor as the rpc layer hands it to a handler.
Message(method, params) == [method |-> method, params |-> params]

\* An Optional[int]: <<>> is None, <<v>> is the integer v.
NoVersion == <<>>

\* lsp.TextDocumentIdentifier(uri=uri, version=version)
TextDocumentIdentifier(uri, version) == [uri |-> uri, version |-> version]

\* A value with its Python type: isinstance reads the type.
Typed(type, edit) == [type |-> type, edit |-> edit]

\* lsp.ApplyWorkspaceEditParams(edit=lsp.WorkspaceEdit(documentChanges=[
\*   lsp.TextDocumentEdit(textDocument, edits=[lsp.TextEdit(range, newText)])]))
WorkspaceEdit(textDocument, pos, newText) ==
    [documentChanges |->
        <<[textDocument |-> textDocument,
           edits |-> <<[range |-> [start |-> pos, end |-> pos], newText |-> newText]>>]>>]

\* ServerCapabilities(): the capabilities the server declares, none by default.
ServerCapabilities == {}

\* self.name
name == "LspServer"

\* PeerInfo(name=self.name, version=None)
PeerInfo(peer, version) == [name |-> peer, version |-> version]

\* A faulty InitializeResult: capabilities worked out anew for each request.
InitializeResult_negotiated(serverInfo, declared) ==
    [serverInfo |-> serverInfo, capabilities |-> declared \cup {"textDocumentSync"}]

\* InitializeResult(serverInfo=..., capabilities=self.capabilities)
InitializeResult(serverInfo, declared) ==
    [serverInfo |-> serverInfo, capabilities |-> declared]

\* The arguments of a call of apply_insert_text: version is passed or left out.
InsertArgs ==
    {[uri |-> u, position |-> 0, text |-> <<"X">>] : u \in Uris}
    \cup {[uri |-> u, position |-> 0, text |-> <<"X">>, version |-> v] :
              u \in Uris, v \in {NoVersion} \cup {<<n>> : n \in Versions}}

\* The payloads of a call of apply_workspace_edit: the dataclass, or the same
\* content as a plain dict.
Payloads ==
    {Typed(t, WorkspaceEdit(TextDocumentIdentifier(u, <<1>>), 0, <<"X">>)) :
        t \in {"ApplyWorkspaceEditParams", "dict"}, u \in Uris}

VARIABLES
    documents,          \* self.documents: a dict, uri -> TextDocumentItem
    change_callbacks,   \* self.change_callbacks: uri -> set of callbacks, each set
                        \* a sequence without repeats, in the order of its iteration
    handlers,           \* the invocations of _on_did_change: their locals and position
    closed,             \* the uris the editor closed and has not opened again
    repeated,           \* the <<callback, uri>> registered again when already registered
    requests,           \* the requests sent over the RPC channel, in order
    edit,               \* the call of apply_insert_text / apply_workspace_edit
    ops,                \* the calls and notifications received so far
    capabilities,       \* self.capabilities
    result,             \* what the last initialize request returned: <<>> before the first
    inbox,              \* the messages read from the transport and not yet handled
    received,           \* every message read from the transport, in order of arrival
    heap,               \* the TextDocumentItem objects made so far: an object is its index
    refs,               \* uri -> the object self.documents holds for it
    delivered           \* the before and after objects handed to callbacks, with
                        \* what they held when they were handed over

\* The messages and the objects: DispatchSpec follows them, the other
\* specifications follow the values only.
objects == <<inbox, received, heap, refs, delivered>>

vars ==
    <<documents, change_callbacks, handlers, closed, repeated, requests, edit, ops,
      capabilities, result, objects>>

docvars ==
    <<documents, change_callbacks, handlers, closed, repeated, capabilities, result, objects>>

\* ----------------------------------------------------------- helpers

\* TextDocumentContentChangeEvent.apply: the range [start, end) of text
\* replaced by newText; a range outside the text fails.
apply(change, text) ==
    IF change.start <= change.end /\ change.end <= Len(text)
    THEN SubSeq(text, 1, change.start) \o change.newText
             \o SubSeq(text, change.end + 1, Len(text))
    ELSE Failure

\* A faulty apply_changes: every change applied to the text as it was stored,
\* not to the result of the change before it.
apply_to_stored(text, contentChanges) ==
    IF contentChanges = <<>> THEN text
    ELSE IF \E i \in 1..Len(contentChanges) : apply(contentChanges[i], text) = Failure
         THEN Failure
         ELSE apply(contentChanges[Len(contentChanges)], text)

\* A faulty apply_changes: a change that fails is skipped and the others are
\* applied.
RECURSIVE apply_skipping(_, _)
apply_skipping(text, contentChanges) ==
    IF contentChanges = <<>> THEN text
    ELSE LET next == apply(Head(contentChanges), text)
         IN apply_skipping(IF next = Failure THEN text ELSE next, Tail(contentChanges))

\* text = document.text; for change in params.contentChanges: text = change.apply(text)
RECURSIVE apply_from(_, _, _)
apply_from(text, contentChanges, i) ==
    IF i > Len(contentChanges) THEN text
    ELSE LET next == apply(contentChanges[i], text)
         IN IF next = Failure THEN Failure
            ELSE apply_from(next, contentChanges, i + 1)

apply_changes(text, contentChanges) == apply_from(text, contentChanges, 1)

\* A faulty replace: the version counted up locally, the declared one ignored.
replace_incrementing(document, version, text) ==
    [document EXCEPT !.version = document.version + 1, !.text = text]

\* A faulty replace: version= left out, replace(document, text=text).
replace_text_only(document, version, text) == [document EXCEPT !.text = text]

\* dataclasses.replace(document, version=item_id.version, text=text)
replace(document, version, text) ==
    [document EXCEPT !.version = version, !.text = text]

\* A faulty documents_get: the record as the change before this one read it,
\* so that the update of that change is lost.
documents_get_stale(uri) ==
    IF uri \notin DOMAIN documents THEN None
    ELSE IF \E h \in DOMAIN handlers : handlers[h].pc = "returned" /\ handlers[h].uri = uri
         THEN handlers[CHOOSE h \in DOMAIN handlers :
                          handlers[h].pc = "returned" /\ handlers[h].uri = uri].before
         ELSE documents[uri]

\* A faulty documents_get: a missing document read as an empty one.
documents_get_or_empty(uri) ==
    IF uri \in DOMAIN documents THEN documents[uri]
    ELSE TextDocumentItem(uri, "", 0, <<>>)

\* self.documents.get(item_id.uri, None)
documents_get(uri) == IF uri \in DOMAIN documents THEN documents[uri] ELSE None

\* One scheduled coroutine: callback(**kwargs) wrapped by asyncio.ensure_future.
Task(callback, before, after) ==
    [callback |-> callback, before |-> before, after |-> after, state |-> "pending"]

\* A faulty fanout: the callbacks are handed the old record as after.
fanout_stale(registered, before, after) ==
    [i \in 1..Len(registered) |-> Task(registered[i], before, before)]
        \o <<Task("on_change", before, after)>>

\* callbacks = [callback(**kwargs) for callback in self.change_callbacks[uri]]
\* callbacks.append(self.on_change(**kwargs))
fanout(registered, before, after) ==
    [i \in 1..Len(registered) |-> Task(registered[i], before, after)]
        \o <<Task("on_change", before, after)>>

\* Whether asyncio has logged, by now, an exception that no one retrieved
\* from the tasks: it may have when a task raised, and not otherwise.
never_retrieved(tasks) ==
    IF \E i \in 1..Len(tasks) : tasks[i].state = "failed" THEN BOOLEAN ELSE {FALSE}

\* A faulty all_completed: asyncio.wait(..., return_when=FIRST_EXCEPTION).
first_exception(tasks) ==
    \/ \E i \in 1..Len(tasks) : tasks[i].state = "failed"
    \/ \A i \in 1..Len(tasks) : tasks[i].state = "done"

\* A faulty all_completed: asyncio.wait(..., return_when=FIRST_COMPLETED).
first_completed(tasks) ==
    \E i \in 1..Len(tasks) : tasks[i].state \in {"done", "failed"}

\* asyncio.wait(..., return_when=ALL_COMPLETED): every task is done.
all_completed(tasks) ==
    \A i \in 1..Len(tasks) : tasks[i].state \in {"done", "failed"}

\* The elements of a set of callbacks kept as a sequence.
Elements(registered) == {registered[i] : i \in DOMAIN registered}

\* A faulty add: nothing is added while an invocation awaits its callbacks.
add_when_idle(registered, callback) ==
    IF \E h \in DOMAIN handlers : handlers[h].pc = "waiting" THEN registered
    ELSE IF callback \in Elements(registered) THEN registered
    ELSE Append(registered, callback)

\* A faulty add: a list's append, which keeps what is already there.
add_appending(registered, callback) == Append(registered, callback)

\* self.change_callbacks[uri].add(callback): nothing new for an element.
add(registered, callback) ==
    IF callback \in Elements(registered) THEN registered ELSE Append(registered, callback)

\* version: int = 0
default_version == 0

\* The version apply_insert_text runs with: the argument, or the default.
bind_version(args) ==
    IF "version" \in DOMAIN args THEN args.version ELSE <<default_version>>

\* A faulty isinstance_params: any payload with an edit passes.
isinstance_anything(params) == "edit" \in DOMAIN params

\* isinstance(params, ApplyWorkspaceEditParams)
isinstance_params(params) == params.type = "ApplyWorkspaceEditParams"

NoCall == [pc |-> "idle", fn |-> "", args |-> <<>>, params |-> <<>>]

IdleHandler ==
    [pc |-> "idle", uri |-> "", version |-> 0, contentChanges |-> <<>>,
     before |-> None, after |-> None, tasks |-> <<>>, logged |-> <<>>]

\* A handler slot that runs no invocation.
Free(h) == handlers[h].pc # "waiting"

\* A faulty may_dispatch: a message is handled as soon as a slot is free,
\* whatever the other invocations await.
may_dispatch_at_once == \E h \in DOMAIN handlers : Free(h)

\* The rpc layer handles one message at a time: the next one when no
\* invocation awaits.
may_dispatch == \A h \in DOMAIN handlers : Free(h)

\* The slot the next invocation takes: the first free one.
slot ==
    CHOOSE h \in DOMAIN handlers :
        Free(h) /\ \A g \in DOMAIN handlers : Free(g) => h <= g

\* The rpc layer handles the messages in the order of their arrival.
take(queue) == [message |-> Head(queue), rest |-> Tail(queue)]

\* A faulty allocate: document.version = ...; document.text = ..., the fields
\* of the stored object assigned in place.
allocate_in_place(objs, ref, record) ==
    [heap |-> [objs EXCEPT ![ref] = record], ref |-> ref]

\* replace(document, ...) makes a new object and leaves document as it is.
allocate(objs, ref, record) ==
    [heap |-> Append(objs, record), ref |-> Len(objs) + 1]

\* The messages the editor may send next about the one document DispatchSpec
\* follows. It numbers the versions as it sends, and a change carries at most
\* one edit.
Inbound ==
    LET version == Len(received) + 1 IN
    {Message("textDocument/didOpen", TextDocumentItem(Document, l, version, t)) :
        l \in LanguageIds, t \in OpenTexts}
    \cup {Message("textDocument/didChange", DidChangeTextDocumentParams(Document, version, c)) :
              c \in ShortLists}

\* ------------------------------------------------------------- state

Init ==
    /\ documents = [u \in {} |-> None]
    /\ change_callbacks = [u \in Uris |-> <<>>]
    /\ handlers = [h \in Handlers |-> IdleHandler]
    /\ closed = {}
    /\ repeated = {}
    /\ requests = <<>>
    /\ edit = NoCall
    /\ ops = 0
    /\ capabilities = ServerCapabilities
    /\ result = <<>>
    /\ inbox = <<>>
    /\ received = <<>>
    /\ heap = <<>>
    /\ refs = [u \in {} |-> 0]
    /\ delivered = <<>>

Receive == ops < MaxOps /\ ops' = ops + 1

\* initialize: the result carries the capabilities of the server.
on_initialize ==
    /\ Receive
    /\ result' = <<InitializeResult(PeerInfo(name, NoVersion), capabilities)>>
    /\ UNCHANGED <<documents, change_callbacks, handlers, closed, repeated, requests, edit,
                   capabilities, objects>>

\* The steps of a handler that logs or passes: initialized, textDocument/didSave
\* and $/setTrace.
on_client_initialized ==
    /\ Receive
    /\ UNCHANGED <<docvars, requests, edit>>

\* textDocument/didSave
on_did_save(uri) ==
    /\ Receive
    /\ UNCHANGED <<docvars, requests, edit>>

\* $/setTrace
on_set_trace(value) ==
    /\ Receive
    /\ UNCHANGED <<docvars, requests, edit>>

\* A faulty on_did_open: self.documents.setdefault(item.uri, item), which
\* keeps the record of a uri that is stored.
on_did_open_keeping(item) ==
    /\ Receive
    /\ documents' = documents @@ (item.uri :> item)
    /\ closed' = closed \ {item.uri}
    /\ UNCHANGED <<change_callbacks, handlers, repeated, requests, edit, capabilities, result>>

\* textDocument/didOpen
on_did_open(item) ==
    /\ Receive
    /\ documents' = (item.uri :> item) @@ documents
    /\ closed' = closed \ {item.uri}
    /\ UNCHANGED <<change_callbacks, handlers, repeated, requests, edit, capabilities, result>>

\* textDocument/didChange, to its await: lookup, edits, store, fan-out.
on_did_change(h, uri, version, contentChanges) ==
    /\ Receive
    /\ Free(h)
    /\ LET document == documents_get(uri) IN
       IF document = None
       THEN /\ handlers' = [handlers EXCEPT ![h] =
                   [IdleHandler EXCEPT !.pc = "not opened", !.uri = uri, !.version = version,
                                       !.contentChanges = contentChanges,
                                       !.logged = <<"document not opened">>]]
            /\ UNCHANGED documents
       ELSE LET text == apply_changes(document.text, contentChanges) IN
            IF text = Failure
            THEN /\ handlers' = [handlers EXCEPT ![h] =
                        [IdleHandler EXCEPT !.pc = "raised", !.uri = uri, !.version = version,
                                            !.contentChanges = contentChanges]]
                 /\ UNCHANGED documents
            ELSE /\ Len(text) <= MaxLen
                 /\ LET document_after == replace(document, version, text) IN
                    /\ documents' = (uri :> document_after) @@ documents
                    /\ handlers' = [handlers EXCEPT ![h] =
                          [pc |-> "waiting", uri |-> uri, version |-> version,
                           contentChanges |-> contentChanges,
                           before |-> document, after |-> document_after,
                           tasks |-> fanout(change_callbacks[uri], document, document_after),
                           logged |-> <<>>]]
    /\ UNCHANGED <<change_callbacks, closed, repeated, requests, edit, capabilities, result>>

\* One scheduled callback runs to its end, or raises.
task_step(h, i, outcome) ==
    /\ handlers[h].pc = "waiting"
    /\ i \in 1..Len(handlers[h].tasks)
    /\ handlers[h].tasks[i].state = "pending"
    /\ handlers[h].tasks[i].callback = "on_change" => outcome = "done"
    /\ handlers' = [handlers EXCEPT ![h].tasks[i].state = outcome]
    /\ UNCHANGED <<documents, change_callbacks, closed, repeated, requests, edit, ops,
                   capabilities, result, objects>>

\* await asyncio.wait(...) returns, and with it the handler. The sets of
\* tasks that asyncio.wait returns are dropped and no exception is retrieved
\* from a task: the handler neither raises nor logs. asyncio itself logs an
\* exception nobody retrieved when the task object is collected, and whether
\* that has happened by the time the handler returns is left to the collector.
on_did_change_return(h) ==
    /\ handlers[h].pc = "waiting"
    /\ all_completed(handlers[h].tasks)
    /\ \E collected \in never_retrieved(handlers[h].tasks) :
          handlers' = [handlers EXCEPT
                          ![h].pc = "returned",
                          ![h].logged = IF collected
                                        THEN <<"Task exception was never retrieved">>
                                        ELSE <<>>]
    /\ UNCHANGED <<documents, change_callbacks, closed, repeated, requests, edit, ops,
                   capabilities, result, objects>>

register_change_callback(callback, uri) ==
    /\ Receive
    /\ change_callbacks' = [change_callbacks EXCEPT ![uri] = add(@, callback)]
    /\ repeated' = IF callback \in Elements(change_callbacks[uri])
                   THEN repeated \cup {<<callback, uri>>} ELSE repeated
    /\ UNCHANGED <<documents, handlers, closed, requests, edit, capabilities, result, objects>>

\* A faulty on_did_close: the record of the closed uri is dropped.
on_did_close_purging(uri) ==
    /\ Receive
    /\ closed' = closed \cup {uri}
    /\ documents' = [u \in DOMAIN documents \ {uri} |-> documents[u]]
    /\ UNCHANGED <<change_callbacks, handlers, repeated, requests, edit,
                   capabilities, result, objects>>

\* textDocument/didClose
on_did_close(uri) ==
    /\ Receive
    /\ closed' = closed \cup {uri}
    /\ UNCHANGED <<documents, change_callbacks, handlers, repeated, requests, edit,
                   capabilities, result, objects>>

\* apply_workspace_edit, to its await: the type check, then the request.
workspace_edit(fn, args, params) ==
    IF isinstance_params(params)
    THEN /\ requests' = Append(requests, [method |-> "workspace/applyEdit", params |-> params])
         /\ edit' = [pc |-> "awaiting", fn |-> fn, args |-> args, params |-> params]
    ELSE /\ edit' = [pc |-> "TypeError", fn |-> fn, args |-> args, params |-> params]
         /\ UNCHANGED requests

apply_workspace_edit(params) ==
    /\ Receive
    /\ edit.pc # "awaiting"
    /\ workspace_edit("apply_workspace_edit", <<>>, params)
    /\ UNCHANGED docvars

apply_insert_text(args) ==
    /\ Receive
    /\ edit.pc # "awaiting"
    /\ LET version == bind_version(args) IN
       IF version = NoVersion
       THEN /\ edit' = [pc |-> "AssertionError", fn |-> "apply_insert_text",
                        args |-> args, params |-> <<>>]
            /\ UNCHANGED requests
       ELSE workspace_edit("apply_insert_text", args,
                Typed("ApplyWorkspaceEditParams",
                      WorkspaceEdit(TextDocumentIdentifier(args.uri, version),
                                    args.position, args.text)))
    /\ UNCHANGED docvars

\* The editor answers workspace/applyEdit: the call returns the response.
apply_workspace_edit_return ==
    /\ edit.pc = "awaiting"
    /\ edit' = [edit EXCEPT !.pc = "returned"]
    /\ UNCHANGED <<docvars, requests, ops>>

Next ==
    \/ \E u \in Uris, l \in LanguageIds, v \in Versions, t \in OpenTexts :
          on_did_open(TextDocumentItem(u, l, v, t)) /\ UNCHANGED objects
    \/ \E h \in Handlers, u \in Uris, v \in Versions, c \in ChangeLists :
          on_did_change(h, u, v, c) /\ UNCHANGED objects
    \/ \E h \in Handlers, i \in 1..(Cardinality(Callbacks) + 1), o \in {"done", "failed"} :
          task_step(h, i, o)
    \/ \E h \in Handlers : on_did_change_return(h)
    \/ \E c \in Callbacks, u \in Uris : register_change_callback(c, u)
    \/ \E u \in Uris : on_did_close(u)
    \/ \E u \in Uris : on_did_save(u)
    \/ \E value \in TraceValues : on_set_trace(value)
    \/ on_initialize
    \/ on_client_initialized

\* The document store and the change callbacks.
Spec == Init /\ [][Next]_vars

\* The rpc layer reads a message from the transport; awaiting says whether an
\* invocation of _on_did_change awaited its callbacks at that moment.
recv(message) ==
    /\ Len(received) < MaxOps
    /\ inbox' = Append(inbox, message)
    /\ received' = Append(received,
                          [message |-> message,
                           awaiting |-> \E h \in DOMAIN handlers : ~Free(h)])
    /\ UNCHANGED <<documents, change_callbacks, handlers, closed, repeated, requests, edit,
                   ops, capabilities, result, heap, refs, delivered>>

\* on_did_open with its objects: the store holds the object of the message.
handle_did_open(item) ==
    /\ on_did_open(item)
    /\ heap' = Append(heap, item)
    /\ refs' = (item.uri :> Len(heap) + 1) @@ refs
    /\ UNCHANGED delivered

\* _on_did_change with its objects: document is the object of the store,
\* document_after the one replace makes; both are handed to the callbacks.
handle_did_change(h, params) ==
    /\ on_did_change(h, params.textDocument.uri, params.textDocument.version,
                     params.contentChanges)
    /\ IF handlers'[h].pc = "waiting"
       THEN LET uri == params.textDocument.uri
                made == allocate(heap, refs[uri], handlers'[h].after)
            IN /\ heap' = made.heap
               /\ refs' = (uri :> made.ref) @@ refs
               /\ delivered' = Append(delivered,
                                      [uri |-> uri, message |-> Len(received) - Len(inbox) + 1,
                                       before |-> refs[uri], after |-> made.ref,
                                       held |-> <<handlers'[h].before, handlers'[h].after>>])
       ELSE UNCHANGED <<heap, refs, delivered>>

\* The rpc layer hands the next message to its handler.
dispatch ==
    /\ inbox # <<>>
    /\ may_dispatch
    /\ LET taken == take(inbox) IN
       /\ inbox' = taken.rest
       /\ UNCHANGED received
       /\ IF taken.message.method = "textDocument/didOpen"
          THEN handle_did_open(taken.message.params)
          ELSE handle_did_change(slot, taken.message.params)

InitDispatch ==
    /\ documents = [u \in {} |-> None]
    /\ change_callbacks = [u \in Uris |-> <<>>]
    /\ handlers = [h \in Invocations |-> IdleHandler]
    /\ closed = {}
    /\ repeated = {}
    /\ requests = <<>>
    /\ edit = NoCall
    /\ ops = 0
    /\ capabilities = ServerCapabilities
    /\ result = <<>>
    /\ inbox = <<>>
    /\ received = <<>>
    /\ heap = <<>>
    /\ refs = [u \in {} |-> 0]
    /\ delivered = <<>>

NextDispatch ==
    \/ \E message \in Inbound : recv(message)
    \/ dispatch
    \/ \E h \in Invocations, i \in 1..(Cardinality(Callbacks) + 1), o \in {"done", "failed"} :
          task_step(h, i, o)
    \/ \E h \in Invocations : on_did_change_return(h)
    \/ \E c \in Callbacks : register_change_callback(c, Document)

\* The messages in the order of their arrival, the one invocation the rpc
\* layer runs at a time, and the objects the store and the callbacks hold.
DispatchSpec == InitDispatch /\ [][NextDispatch]_vars

NextEdit ==
    \/ \E a \in InsertArgs : apply_insert_text(a)
    \/ \E p \in Payloads : apply_workspace_edit(p)
    \/ apply_workspace_edit_return

\* The edits the server sends to the editor: they share no state with the
\* document store.
EditSpec == Init /\ [][NextEdit]_vars

\* ------------------------------------------------------------- claims

\* The step is invocation h of _on_did_change up to its await; the invocation
\* holds the notification it was called with.
Notified(h) ==
    on_did_change(h, handlers'[h].uri, handlers'[h].version, handlers'[h].contentChanges)

\* The step is a didChange notification the server accepted: the document was
\* there and every edit applied.
Accepted(h) ==
    /\ Notified(h)
    /\ handlers'[h].uri \in DOMAIN documents
    /\ handlers'[h].pc = "waiting"

\* The edits of a list applied one after another in list order, each to the
\* text the edit before it produced.
RECURSIVE InListOrder(_, _)
InListOrder(text, edits) ==
    IF edits = <<>> THEN text
    ELSE LET sofar == InListOrder(text, SubSeq(edits, 1, Len(edits) - 1))
         IN IF sofar = Failure THEN Failure ELSE apply(edits[Len(edits)], sofar)

\* How many of the tasks run the callback.
Deliveries(tasks, callback) ==
    Cardinality({i \in DOMAIN tasks : tasks[i].callback = callback})

\* C1: after an accepted didChange the stored text of the uri is the text
\* stored before it with the notification's edits applied in list order, each
\* to the result of the edit before it.
C1_EditsInOrder ==
    [][\A h \in Handlers :
          Accepted(h)
              => LET u == handlers'[h].uri IN
                 documents'[u].text
                     = InListOrder(documents[u].text, handlers'[h].contentChanges)]_vars

\* Two edits were applied, the second to the result of the first.
C1_Witness ==
    \E h \in Handlers :
        /\ handlers[h].pc = "waiting"
        /\ handlers[h].contentChanges = <<Change(1, 1, <<"X">>), Change(2, 3, <<>>)>>
        /\ handlers[h].before.text = <<"a", "b">>
        /\ documents[handlers[h].uri].text = <<"a", "X">>

\* C2: a didChange for a uri that is not in the store changes no record and
\* creates none, starts no callback and no on_change, and returns normally.
C2_UnknownDocument ==
    [][\A h \in Handlers :
          (Notified(h) /\ handlers'[h].uri \notin DOMAIN documents)
              => /\ documents' = documents
                 /\ handlers'[h].tasks = <<>>
                 /\ handlers'[h].pc = "not opened"]_vars

\* A change to a uri never opened was dropped though a callback waits for it.
C2_Witness ==
    \E h \in Handlers :
        /\ handlers[h].pc = "not opened"
        /\ handlers[h].uri \notin DOMAIN documents
        /\ change_callbacks[handlers[h].uri] # <<>>

\* C3: a handler that has returned started at least the default hook, and
\* every callback it started has completed.
C3_ReturnsAfterAll ==
    \A h \in Handlers :
        handlers[h].pc = "returned"
            => /\ handlers[h].tasks # <<>>
               /\ \A i \in DOMAIN handlers[h].tasks :
                      handlers[h].tasks[i].state \in {"done", "failed"}

\* The handler returned after two callbacks and the default hook.
C3_Witness ==
    \E h \in Handlers :
        /\ handlers[h].pc = "returned"
        /\ Len(handlers[h].tasks) = Cardinality(Callbacks) + 1

\* C4: an accepted didChange starts one task for every callback registered for
\* its uri and one for on_change, and none for any other callback; each is
\* handed the record stored before the notification as before and the record
\* stored after it as after, and the tasks stay these until the handler returns.
C4_OneEvent ==
    [][/\ \A h \in Handlers :
            Accepted(h)
                => LET tasks == handlers'[h].tasks
                       u == handlers'[h].uri
                       recipients == Elements(change_callbacks[u]) \cup {"on_change"}
                   IN /\ \A r \in recipients : Deliveries(tasks, r) = 1
                      /\ \A i \in DOMAIN tasks :
                            /\ tasks[i].callback \in recipients
                            /\ tasks[i].before = documents[u]
                            /\ tasks[i].after = documents'[u]
       /\ \A h \in Handlers :
            handlers[h].pc = "waiting"
                => /\ handlers'[h].pc \in {"waiting", "returned"}
                   /\ DOMAIN handlers'[h].tasks = DOMAIN handlers[h].tasks
                   /\ \A i \in DOMAIN handlers[h].tasks :
                         [handlers'[h].tasks[i] EXCEPT !.state = "pending"]
                             = [handlers[h].tasks[i] EXCEPT !.state = "pending"]]_vars

\* "ab" at version 1 with "X" inserted at offset 1 by version 2: the callback
\* of doc1 and on_change hold ("ab", "aXb"), the callback of doc2 holds nothing.
C4_Witness ==
    \E h \in Handlers :
        /\ handlers[h].pc = "waiting"
        /\ handlers[h].uri = "doc1"
        /\ change_callbacks["doc1"] = <<"cb1">>
        /\ change_callbacks["doc2"] = <<"cb2">>
        /\ Len(handlers[h].tasks) = 2
        /\ \A i \in DOMAIN handlers[h].tasks :
              /\ handlers[h].tasks[i].before.text = <<"a", "b">>
              /\ handlers[h].tasks[i].before.version = 1
              /\ handlers[h].tasks[i].after.text = <<"a", "X", "b">>
              /\ handlers[h].tasks[i].after.version = 2

\* C5: registering a callback that is already registered for the uri leaves
\* the callbacks of every uri as they were, and an accepted didChange starts
\* each registered callback once.
C5_RegisterIdempotent ==
    [][/\ \A cb \in Callbacks, u \in Uris :
            (register_change_callback(cb, u) /\ cb \in Elements(change_callbacks[u]))
                => change_callbacks' = change_callbacks
       /\ \A h \in Handlers :
            Accepted(h)
                => \A cb \in Elements(change_callbacks[handlers'[h].uri]) :
                       Deliveries(handlers'[h].tasks, cb) = 1]_vars

\* cb1 was registered twice for the uri, and a change then started it once.
C5_Witness ==
    \E h \in Handlers :
        /\ handlers[h].pc = "waiting"
        /\ <<"cb1", handlers[h].uri>> \in repeated
        /\ change_callbacks[handlers[h].uri] = <<"cb1">>
        /\ Deliveries(handlers[h].tasks, "cb1") = 1

\* C6: after an accepted didChange the stored record has the notification's
\* version and the uri and languageId of the record before; with an empty edit
\* list its text is the text before.
C6_DeclaredVersion ==
    [][\A h \in Handlers :
          Accepted(h)
              => LET u == handlers'[h].uri IN
                 /\ documents'[u].version = handlers'[h].version
                 /\ documents'[u].uri = documents[u].uri
                 /\ documents'[u].languageId = documents[u].languageId
                 /\ handlers'[h].contentChanges = <<>>
                       => documents'[u].text = documents[u].text]_vars

\* An empty edit list moved the version from 2 to 1 and left the text.
C6_Witness ==
    \E h \in Handlers :
        /\ handlers[h].pc = "waiting"
        /\ handlers[h].contentChanges = <<>>
        /\ handlers[h].before.version = 2
        /\ documents[handlers[h].uri].version = 1
        /\ documents[handlers[h].uri].text = handlers[h].before.text

\* C7: apply_insert_text called with no version argument fails with the
\* assertion's error and sends no request.
C7_MissingVersionRejected ==
    [][\A a \in InsertArgs :
          (apply_insert_text(a) /\ "version" \notin DOMAIN a)
              => /\ edit'.pc = "AssertionError"
                 /\ requests' = requests]_vars

\* C8: apply_workspace_edit given a payload that is no ApplyWorkspaceEditParams
\* raises TypeError and sends nothing; every request that is sent carries an
\* ApplyWorkspaceEditParams.
C8_TypeMismatch ==
    [][/\ \A p \in Payloads :
            (apply_workspace_edit(p) /\ p.type # "ApplyWorkspaceEditParams")
                => /\ edit'.pc = "TypeError"
                   /\ requests' = requests
       /\ requests' # requests
            => /\ Len(requests') = Len(requests) + 1
               /\ SubSeq(requests', 1, Len(requests)) = requests
               /\ requests'[Len(requests')].method = "workspace/applyEdit"
               /\ requests'[Len(requests')].params.type = "ApplyWorkspaceEditParams"]_vars

\* A dict was refused after a well-typed payload had been sent.
C8_Witness ==
    /\ edit.pc = "TypeError"
    /\ edit.fn = "apply_workspace_edit"
    /\ edit.params.type = "dict"
    /\ Len(requests) = 1

\* The items a didOpen may carry.
Items ==
    {TextDocumentItem(u, l, v, t) :
        u \in Uris, l \in LanguageIds, v \in Versions, t \in OpenTexts}

\* C9 as claimed, in its weakest reading: the stored version of a uri never
\* decreases.
C9_VersionNeverDecreases ==
    [][\A u \in DOMAIN documents :
          documents'[u].version >= documents[u].version]_vars

\* C9 as amended: the stored version is the one the accepted didOpen or
\* didChange carried, and it falls only when that notification carried a
\* version lower than the stored one.
C9_VersionFollowsClient ==
    [][/\ \A item \in Items :
            (handlers' = handlers /\ on_did_open(item))
                => documents'[item.uri].version = item.version
       /\ \A h \in Handlers :
            Accepted(h) => documents'[handlers'[h].uri].version = handlers'[h].version
       /\ \A u \in DOMAIN documents :
            documents'[u].version < documents[u].version
                => \/ \E item \in Items :
                         /\ item.uri = u
                         /\ item.version < documents[u].version
                         /\ on_did_open(item)
                   \/ \E h \in Handlers :
                         /\ handlers'[h].uri = u
                         /\ handlers'[h].version < documents[u].version
                         /\ Accepted(h)]_vars

\* A didChange carried a version above the stored one, and it was stored.
C9_Witness ==
    \E h \in Handlers :
        /\ handlers[h].pc = "waiting"
        /\ handlers[h].version > handlers[h].before.version
        /\ documents[handlers[h].uri].version = handlers[h].version

\* C10: a didChange for a uri that was closed and not opened again changes no
\* record and starts no callback.
C10_ChangeAfterCloseDropped ==
    [][\A h \in Handlers :
          (Notified(h) /\ handlers'[h].uri \in closed)
              => /\ documents' = documents
                 /\ handlers'[h].tasks = <<>>]_vars

\* C11: the capabilities of the server are the ones it was constructed with,
\* whatever it has received since, and the result of every initialize request
\* carries them.
C11_StaticCapabilities ==
    /\ capabilities = ServerCapabilities
    /\ result # <<>>
          => /\ Len(result) = 1
             /\ result[1].capabilities = ServerCapabilities
             /\ result[1].serverInfo.name = name

\* initialize was answered after a document was opened and changed and a
\* callback registered.
C11_Witness ==
    /\ result # <<>>
    /\ \E h \in Handlers : handlers[h].pc = "waiting" /\ Len(handlers[h].tasks) = 2

\* How many of the received messages have been handed to a handler.
Handled == Len(received) - Len(inbox)

\* The store after the first n of the messages were handled one after
\* another, each to its end, in the order of the list: a didOpen stores its
\* item, a didChange to a stored document whose edits apply stores the edited
\* text under the version it declares, any other didChange stores nothing.
RECURSIVE Replayed(_, _)
Replayed(messages, n) ==
    IF n = 0 THEN [u \in {} |-> None]
    ELSE LET store == Replayed(messages, n - 1)
             m == messages[n].message
         IN IF m.method = "textDocument/didOpen"
            THEN (m.params.uri :> m.params) @@ store
            ELSE LET uri == m.params.textDocument.uri IN
                 IF uri \notin DOMAIN store THEN store
                 ELSE LET text == InListOrder(store[uri].text, m.params.contentChanges) IN
                      IF text = Failure THEN store
                      ELSE (uri :> [store[uri] EXCEPT
                                       !.version = m.params.textDocument.version,
                                       !.text = text]) @@ store

\* No didOpen of the uri is among the messages from the i-th to the j-th.
NotOpenedBetween(uri, i, j) ==
    \A n \in i..j :
        ~(/\ received[n].message.method = "textDocument/didOpen"
          /\ received[n].message.params.uri = uri)

Failed(h) == \E i \in DOMAIN handlers[h].tasks : handlers[h].tasks[i].state = "failed"

\* C13: when a callback of an invocation has raised, the invocation still
\* holds a task for on_change and no task twice, it has not raised itself,
\* every task that has not finished can still run to its end, and the
\* invocation has returned only if every task has finished.
C13_FailureIsolated ==
    \A h \in Handlers :
        Failed(h)
            => LET tasks == handlers[h].tasks IN
               /\ handlers[h].pc \in {"waiting", "returned"}
               /\ Deliveries(tasks, "on_change") = 1
               /\ \A i, j \in DOMAIN tasks : tasks[i].callback = tasks[j].callback => i = j
               /\ \A i \in DOMAIN tasks :
                     /\ tasks[i].state \in {"pending", "done", "failed"}
                     /\ (handlers[h].pc = "waiting" /\ tasks[i].state = "pending")
                           => ENABLED task_step(h, i, "done")
                     /\ handlers[h].pc = "returned" => tasks[i].state \in {"done", "failed"}

\* cb1 raised; cb2 and on_change ran to their end, and then the handler
\* returned.
C13_Witness ==
    \E h \in Handlers :
        /\ handlers[h].pc = "returned"
        /\ Len(handlers[h].tasks) = 3
        /\ \A i \in DOMAIN handlers[h].tasks :
              handlers[h].tasks[i].state
                  = IF handlers[h].tasks[i].callback = "cb1" THEN "failed" ELSE "done"

\* C14: an invocation that has ended after one of its callbacks raised has
\* raised itself or has a record of the failure in the log.
C14_FailureSurfaced ==
    \A h \in Handlers :
        (Failed(h) /\ handlers[h].pc # "waiting")
            => \/ handlers[h].pc = "raised"
               \/ handlers[h].logged # <<>>

\* C16: a callback registered for a uri is among the callbacks of the uri from
\* then on, also when an invocation for the uri awaits its callbacks, and that
\* invocation keeps the tasks it started, no more and no fewer, until it
\* returns with all of them finished; the next accepted didChange for the uri
\* starts a task for every callback registered by then.
C16_RegisteredMidDispatch ==
    [][/\ \A cb \in Callbacks, u \in Uris :
            (handlers' = handlers /\ register_change_callback(cb, u))
                => cb \in Elements(change_callbacks'[u])
       /\ \A u \in Uris : Elements(change_callbacks[u]) \subseteq Elements(change_callbacks'[u])
       /\ \A h \in Handlers :
            handlers[h].pc = "waiting"
                => /\ Len(handlers'[h].tasks) = Len(handlers[h].tasks)
                   /\ \A i \in DOMAIN handlers[h].tasks :
                         handlers'[h].tasks[i].callback = handlers[h].tasks[i].callback
                   /\ handlers'[h].pc = "returned"
                         => \A i \in DOMAIN handlers[h].tasks :
                                handlers[h].tasks[i].state # "pending"
       /\ \A h \in Handlers :
            Accepted(h)
                => \A cb \in Elements(change_callbacks[handlers'[h].uri]) :
                       Deliveries(handlers'[h].tasks, cb) = 1]_vars

\* cb1 was registered for the uri while the handler awaited on_change, its one
\* task: the task has finished, and the handler holds no task for cb1.
C16_Witness ==
    \E h \in Handlers :
        /\ handlers[h].pc = "waiting"
        /\ "cb1" \in Elements(change_callbacks[handlers[h].uri])
        /\ Len(handlers[h].tasks) = 1
        /\ handlers[h].tasks[1].callback = "on_change"
        /\ handlers[h].tasks[1].state = "done"

\* C17: the before object and the after object handed to the callbacks of a
\* change are two objects, each holds what it held when it was handed over,
\* and the store holds for every uri the object with the record stored.
C17_RecordsImmutable ==
    /\ \A k \in DOMAIN delivered :
          /\ delivered[k].before # delivered[k].after
          /\ heap[delivered[k].before] = delivered[k].held[1]
          /\ heap[delivered[k].after] = delivered[k].held[2]
    /\ DOMAIN refs = DOMAIN documents
    /\ \A u \in DOMAIN documents : heap[refs[u]] = documents[u]

\* Two changes were handed to the callbacks and the document was then opened
\* again: the before object of the first change still holds "ab" at version 1.
C17_Witness ==
    /\ Len(delivered) = 2
    /\ Len(heap) = 4
    /\ refs[Document] = 4
    /\ heap[delivered[1].before] = TextDocumentItem(Document, "python", 1, <<"a", "b">>)
    /\ heap[delivered[1].after].version = 2
    /\ heap[delivered[2].before].version = 2

C19_OpenOverwrites ==
    [][\A item \in Items :
          /\ (ops < MaxOps /\ item.uri \in DOMAIN documents)
                => ENABLED (on_did_open(item) /\ UNCHANGED objects)
          /\ on_did_open(item)
                => /\ DOMAIN documents' = DOMAIN documents \cup {item.uri}
                   /\ documents'[item.uri] = item
                   /\ \A u \in DOMAIN documents \ {item.uri} : documents'[u] = documents[u]
                   /\ change_callbacks' = change_callbacks
                   /\ handlers' = handlers]_vars

\* The uri was opened again after a change to it: the store holds the opened
\* text, cb1 is still registered, and the tasks of the change are as they were.
C19_Witness ==
    \E h \in Handlers :
        /\ handlers[h].pc = "waiting"
        /\ handlers[h].after.text = <<"a", "X", "b">>
        /\ documents[handlers[h].uri].text = <<"a", "b">>
        /\ documents[handlers[h].uri].version = 2
        /\ change_callbacks[handlers[h].uri] = <<"cb1">>
        /\ \A i \in DOMAIN handlers[h].tasks : handlers[h].tasks[i].state = "pending"

\* C20: a didChange for a stored uri with an edit that fails, the edits before
\* it having applied, leaves every record of the store as it was, starts no
\* task, neither for a callback nor for on_change, and raises.
C20_AllOrNothing ==
    [][\A h \in Handlers :
          (/\ Notified(h)
           /\ handlers'[h].uri \in DOMAIN documents
           /\ InListOrder(documents[handlers'[h].uri].text, handlers'[h].contentChanges)
                 = Failure)
              => /\ documents' = documents
                 /\ handlers'[h].tasks = <<>>
                 /\ handlers'[h].pc = "raised"]_vars

\* "aXb" was to lose [2, 3) twice: the first deletion applies and gives "aX",
\* the second fails, and the store holds "aXb" as before.
C20_Witness ==
    \E h \in Handlers :
        /\ handlers[h].pc = "raised"
        /\ handlers[h].contentChanges = <<Change(2, 3, <<>>), Change(2, 3, <<>>)>>
        /\ documents[handlers[h].uri].text = <<"a", "X", "b">>
        /\ documents[handlers[h].uri].version # handlers[h].version
        /\ handlers[h].tasks = <<>>

====
